---- MODULE Spec2Model ----
(***************************************************************************)
(* Control loop of the ESP32 smart watering firmware                       *)
(* (src/Watering_IoT/Watering_IoT.ino): the AUTO / MANUAL / EMERGENCY_STOP *)
(* arbiter, the fuzzy pulse scheduler, applyPump and the telemetry timer.  *)
(*                                                                         *)
(* One loop() iteration is three kinds of step:                            *)
(*   LoopBegin   now = millis(), connection upkeep        (lines 204-220)  *)
(*   Dispatch    voneClient.loop() hands one inbound message to            *)
(*               onActuatorReceived                          (line 222)    *)
(*   LoopRest    serial read, control logic, applyPump, telemetry          *)
(*                                                        (lines 227-326)  *)
(* Times are milliseconds of the millis() counter.                         *)
(*                                                                         *)
(* The Edge firmware (src/Edge/Watering_IoT/Watering_IoT.ino), which has   *)
(* no modes and switches the pump on MQTT and serial commands, is the      *)
(* second program of the module: one loop() of it is an EdgeMqtt step      *)
(* (connection upkeep, callback) and an EdgeRest step (serial, telemetry). *)
(***************************************************************************)
EXTENDS Integers, Sequences, FiniteSets, TLC

\* ------------------------------------------------------------------------
\* Program constants
\* ------------------------------------------------------------------------
MANUAL_TIMEOUT == 30000
TELEMETRY_CYCLE == 60000
FUZZY1_PULSE == 20000
FUZZY2_PULSE == 40000
\* soil moisture calibration: raw reading when fully dry, when fully wet
MinDepth == 4095
MaxDepth == 2170
\* Edge firmware: telemetry period, least time between two connection
\* attempts
EDGE_TELEMETRY_CYCLE == 3600000
RECONNECT_INTERVAL == 5000
\* Edge firmware: polls of the WiFi status that setup_wifi() makes at most
WIFI_RETRIES == 20
topic_telemetry == "device/ESP32_001/telemetry"
topic_command == "device/ESP32_001/command"

AUTO_MODE == "AUTO_MODE"
MANUAL_MODE == "MANUAL_MODE"
EMERGENCY_STOP == "EMERGENCY_STOP"
ControlMode == {AUTO_MODE, MANUAL_MODE, EMERGENCY_STOP}

RelayWaterPump == "8ae703d6"
DHT11Sensor == "993a0fea"

\* ------------------------------------------------------------------------
\* Bounds of the model
\* ------------------------------------------------------------------------
\* millis() is observed on a grid of TimeStep ms; between two observations
\* at most MaxSteps grid steps pass.
TimeStep == 5000
MaxSteps == 3
\* Raw moisture readings run from 0 to MaxRaw (the converter gives 0..4095).
MaxRaw == 4200
\* The run is followed for the first MaxClock ms after boot.
MaxClock == 100000
\* The Edge firmware is followed for the first EdgeMaxClock ms.
EdgeMaxClock == 7300000
\* The device left alone in AUTO is followed for the first AutoMaxClock ms.
AutoMaxClock == 125000
\* Around the wrap of the counter the device is followed from WrapLead ms
\* before the wrap to WrapEnd ms after it, and commands arrive during the
\* first WrapCmdSpan ms of that.
WrapLead == 25000
WrapEnd == 45000
WrapCmdSpan == 15000
\* Width of the millisecond counter.  The device counts modulo 2^32; TLC's
\* integers are 32-bit signed, so the counter is kept modulo 2^30 here.
ULONG_MOD == 1073741824

Deltas == {k * TimeStep : k \in 0..MaxSteps}
\* Inbound commands are accepted up to CmdHorizon, so that every manual
\* window opened within the bound can also be seen to run out within it.
CmdHorizon == MaxClock - MANUAL_TIMEOUT - TimeStep

\* ------------------------------------------------------------------------
\* unsigned long arithmetic
\* ------------------------------------------------------------------------
TimeAdd(a, b) == (a + b) % ULONG_MOD
TimeSub(a, b) == (a - b) % ULONG_MOD

VARIABLES
    clock,            \* current value of millis()
    now,              \* loop(): unsigned long now = millis()
    pc,               \* "idle": between iterations; "net": in voneClient.loop()
    connected,        \* voneClient.connected()
    statusPublished,  \* loop(): static bool statusPublished
    mode,
    pumpState,
    lastPumpState,
    manualStartTime,
    manualLock,
    fuzzyState,
    pulseRunning,
    pulseEndTime,
    cycleStart,
    lastMsg,
    relay,            \* level written to RELAY_PIN
    ledG,             \* level written to LED_Pin_G
    ledR,             \* level written to LED_Pin_R
    \* observation variables (history of the run, not read by the program)
    published,        \* the last applyPump() issued a state-change publish
    lastCmd,          \* last command that took effect: "none", "on", "stop"
    cmdInIter,        \* lastCmd was dispatched in the current/last iteration
    windowAtCmd,      \* a pulse window was active when lastCmd was dispatched
    cycleFuzzy,       \* fuzzyState read at the last cycle boundary, -100: none
    cmdSinceCycle,    \* a command took effect since the last cycle boundary
    prevCmdInIter,    \* the command of this iteration that lastCmd replaced,
                      \* "none" when lastCmd was the first of its iteration
    \* further observations, recorded only by the specifications that need
    \* them (ObsSpec, AutoSpec); they stay at their initial value elsewhere
    fuzzyRead,        \* the current/last iteration stored a fuzzy state
    fuzzyUses,        \* cycle boundaries that have read the stored fuzzy state
    windows,          \* the last two pulse windows opened, latest first, each
                      \* with the clock at its opening and its pulseEndTime
    reading,          \* the sensor levels the telemetry step reads: {} or {r}
    telemetry,        \* the record that step assembled: {} or {record}
    \* state of the Edge firmware only (with clock, now, pc, connected,
    \* pumpState, lastMsg, relay, ledG, ledR, which both programs have)
    lastReconnect,    \* loop(): static unsigned long lastReconnect
    subscribed,       \* the session holds the subscription to topic_command
    sent,             \* the record in telemetry was published to the broker
    \* observations of the Edge loop() now running or last run
    wifiUp,           \* WiFi.status() == WL_CONNECTED at line 219
    sessionUp,        \* client.connected() at line 220
    attempts,         \* calls of client.connect() made by this loop()
    attemptTimes,     \* clock of the last two such calls of any loop(),
                      \* latest first
    delivered,        \* what this loop() handed to callback(): {} or {m}
    emitTimes,        \* clock of the last two calls of sendTelemetry(),
                      \* latest first
    retries           \* setup_wifi() of the Edge firmware: int retries, 0
                      \* outside setup_wifi()

ctlVars == <<mode, pumpState, manualStartTime, manualLock, fuzzyState,
             pulseRunning, pulseEndTime, cycleStart>>
outVars == <<lastPumpState, relay, ledG, ledR, published>>
obsVars == <<lastCmd, cmdInIter, windowAtCmd, cycleFuzzy, cmdSinceCycle,
             prevCmdInIter>>
recVars == <<fuzzyRead, fuzzyUses, windows, reading, telemetry>>
edgeObs == <<wifiUp, sessionUp, attempts, attemptTimes, delivered,
             emitTimes>>
edgeVars == <<lastReconnect, subscribed, sent, edgeObs, retries>>
vars == <<clock, now, pc, connected, statusPublished, ctlVars, lastMsg,
          outVars, obsVars, recVars, edgeVars>>

\* The control state as one record, threaded through the operators below.
Ctl == [mode |-> mode, pumpState |-> pumpState,
        manualStartTime |-> manualStartTime, manualLock |-> manualLock,
        fuzzyState |-> fuzzyState, pulseRunning |-> pulseRunning,
        pulseEndTime |-> pulseEndTime, cycleStart |-> cycleStart]

SetCtl(s) ==
    /\ mode' = s.mode
    /\ pumpState' = s.pumpState
    /\ manualStartTime' = s.manualStartTime
    /\ manualLock' = s.manualLock
    /\ fuzzyState' = s.fuzzyState
    /\ pulseRunning' = s.pulseRunning
    /\ pulseEndTime' = s.pulseEndTime
    /\ cycleStart' = s.cycleStart

\* ------------------------------------------------------------------------
\* Inbound actuator messages
\* ------------------------------------------------------------------------
Payloads == {"{\"Relay\":true}", "{\"Relay\":false}", "{\"Relay\":1}", "{}",
             "Relay=1"}
DeviceIds == {RelayWaterPump, DHT11Sensor}

\* JSON.parse(payload): "undefined" for text that is no JSON, else the object
\* with the value of its Relay member ("undefined" when it has none).
JsonParse(payload) ==
    CASE payload = "{\"Relay\":true}"  -> [type |-> "object", Relay |-> "true"]
      [] payload = "{\"Relay\":false}" -> [type |-> "object", Relay |-> "false"]
      [] payload = "{\"Relay\":1}"     -> [type |-> "object", Relay |-> "number"]
      [] payload = "{}"                -> [type |-> "object", Relay |-> "undefined"]
      [] OTHER                         -> [type |-> "undefined", Relay |-> "undefined"]

\* (bool)cmd["Relay"]: true only for the JSON boolean true; false for every
\* other value and for a member that is not there.
BoolCast(v) == v = "true"

\* What onActuatorReceived does with a message: "ignored" (early return),
\* "on" (manual branch) or "stop" (emergency branch).
CmdKind(deviceId, payload) ==
    IF deviceId # RelayWaterPump THEN "ignored"
    ELSE IF JsonParse(payload).type = "undefined" THEN "ignored"
    ELSE IF BoolCast(JsonParse(payload).Relay) THEN "on"
    ELSE "stop"

\* onActuatorReceived(deviceId, payload) run at millis() = t on control state s
\* (mutant) the stop branch only switches pumpState off, as a plain
\* on/off command handler would
M_OnActuatorReceived_StopOnlyPumpOff(s, deviceId, payload, t) ==
    LET k == CmdKind(deviceId, payload) IN
    IF k = "on" THEN
        [s EXCEPT !.mode = MANUAL_MODE, !.pumpState = TRUE,
                  !.manualStartTime = TimeAdd(t, MANUAL_TIMEOUT),
                  !.manualLock = TRUE]
    ELSE IF k = "stop" THEN [s EXCEPT !.pumpState = FALSE]
    ELSE s

\* (mutant) the emergency stop is latched: a manual-on that finds the mode
\* EMERGENCY_STOP is dropped
M_OnActuatorReceived_StopLatched(s, deviceId, payload, t) ==
    LET k == CmdKind(deviceId, payload) IN
    IF k = "on" /\ s.mode # EMERGENCY_STOP THEN
        [s EXCEPT !.mode = MANUAL_MODE, !.pumpState = TRUE,
                  !.manualStartTime = TimeAdd(t, MANUAL_TIMEOUT),
                  !.manualLock = TRUE]
    ELSE IF k = "stop" THEN
        [s EXCEPT !.mode = EMERGENCY_STOP, !.pumpState = FALSE,
                  !.pulseRunning = FALSE, !.manualLock = TRUE]
    ELSE s

OnActuatorReceived(s, deviceId, payload, t) ==
    LET k == CmdKind(deviceId, payload) IN
    IF k = "on" THEN
        [s EXCEPT !.mode = MANUAL_MODE, !.pumpState = TRUE,
                  !.manualStartTime = TimeAdd(t, MANUAL_TIMEOUT),
                  !.manualLock = TRUE]
    ELSE IF k = "stop" THEN
        [s EXCEPT !.mode = EMERGENCY_STOP, !.pumpState = FALSE,
                  !.pulseRunning = FALSE, !.manualLock = TRUE]
    ELSE s

\* ------------------------------------------------------------------------
\* Serial input of the fuzzy state
\* ------------------------------------------------------------------------
\* A received line is a sequence of characters (the '\n' already removed).
SerialLines == { <<"0">>, <<"1">>, <<"2">>, <<"7">>, <<"x">>, <<" ">>,
                 <<" ", "2", " ">> }
NoLine == <<"\n">>   \* Serial.available() == 0: nothing to read

IsSpace(c) == c \in {" ", "\t", "\r"}
Digits == <<"0", "1", "2", "3", "4", "5", "6", "7", "8", "9">>
IsDigit(c) == \E i \in 1..10 : Digits[i] = c
DigitVal(c) == (CHOOSE i \in 1..10 : Digits[i] = c) - 1

RECURSIVE TrimLeft(_)
TrimLeft(str) ==
    IF str # <<>> /\ IsSpace(Head(str)) THEN TrimLeft(Tail(str)) ELSE str

RECURSIVE TrimRight(_)
TrimRight(str) ==
    IF str # <<>> /\ IsSpace(str[Len(str)])
    THEN TrimRight(SubSeq(str, 1, Len(str) - 1)) ELSE str

\* String::trim()
Trim(str) == TrimRight(TrimLeft(str))

RECURSIVE ParseDigits(_, _)
ParseDigits(str, acc) ==
    IF str # <<>> /\ IsDigit(Head(str))
    THEN ParseDigits(Tail(str), acc * 10 + DigitVal(Head(str)))
    ELSE acc

\* String::toInt(): the decimal integer at the start of the text, after any
\* white space, 0 when there is none.
ToInt(str) ==
    LET t == TrimLeft(str) IN
    IF t # <<>> /\ Head(t) = "-" THEN 0 - ParseDigits(Tail(t), 0)
    ELSE ParseDigits(t, 0)

\* (mutant) a fuzzy state of 0 also stops the pulse that is running
M_ReadSerial_ZeroCancels(s, line) ==
    IF line = NoLine THEN s
    ELSE IF Len(Trim(line)) > 0 THEN
        [s EXCEPT !.fuzzyState = ToInt(Trim(line)),
                  !.pulseRunning = IF ToInt(Trim(line)) = 0 THEN FALSE ELSE @]
    ELSE s

\* lines 227-233
ReadSerial(s, line) ==
    IF line = NoLine THEN s
    ELSE IF Len(Trim(line)) > 0 THEN [s EXCEPT !.fuzzyState = ToInt(Trim(line))]
    ELSE s

\* ------------------------------------------------------------------------
\* Control logic of loop()
\* ------------------------------------------------------------------------
\* (mutant) a cycle is as long as the short pulse
M_CycleDue_PulsePeriod(s, t) == TimeSub(t, s.cycleStart) >= FUZZY1_PULSE

\* lines 256-270: start a new irrigation cycle when one is due
CycleDue(s, t) == TimeSub(t, s.cycleStart) >= TELEMETRY_CYCLE

\* (mutant) every fuzzy state other than 0 and 1 asks for the long pulse
M_StartCycle_NonZeroPulses(s, t) ==
    IF CycleDue(s, t) THEN
        LET s1 == [s EXCEPT !.cycleStart = t, !.pulseRunning = FALSE] IN
        IF s.fuzzyState = 1 THEN
            [s1 EXCEPT !.pulseEndTime = TimeAdd(t, FUZZY1_PULSE),
                       !.pulseRunning = TRUE]
        ELSE IF s.fuzzyState # 0 THEN
            [s1 EXCEPT !.pulseEndTime = TimeAdd(t, FUZZY2_PULSE),
                       !.pulseRunning = TRUE]
        ELSE s1
    ELSE s

StartCycle(s, t) ==
    IF CycleDue(s, t) THEN
        LET s1 == [s EXCEPT !.cycleStart = t, !.pulseRunning = FALSE] IN
        IF s.fuzzyState = 1 THEN
            [s1 EXCEPT !.pulseEndTime = TimeAdd(t, FUZZY1_PULSE),
                       !.pulseRunning = TRUE]
        ELSE IF s.fuzzyState = 2 THEN
            [s1 EXCEPT !.pulseEndTime = TimeAdd(t, FUZZY2_PULSE),
                       !.pulseRunning = TRUE]
        ELSE s1
    ELSE s

\* (mutant) the window is closed one comparison late: now <= pulseEndTime
M_PulseTiming_InclusiveEnd(s, t) ==
    IF s.pulseRunning THEN
        IF t <= s.pulseEndTime THEN [s EXCEPT !.pumpState = TRUE]
        ELSE [s EXCEPT !.pumpState = FALSE, !.pulseRunning = FALSE]
    ELSE [s EXCEPT !.pumpState = FALSE]

\* lines 273-283: apply pulse timing
PulseTiming(s, t) ==
    IF s.pulseRunning THEN
        IF t < s.pulseEndTime THEN [s EXCEPT !.pumpState = TRUE]
        ELSE [s EXCEPT !.pumpState = FALSE, !.pulseRunning = FALSE]
    ELSE [s EXCEPT !.pumpState = FALSE]

\* Which branch of the if / else-if chain of lines 238-284 runs.
ControlBranch(s) ==
    IF s.mode = EMERGENCY_STOP THEN "estop"
    ELSE IF s.mode = MANUAL_MODE THEN "manual"
    ELSE IF s.mode = AUTO_MODE /\ ~s.manualLock THEN "auto"
    ELSE "none"

\* (mutant) both locked modes are handled by the manual branch
M_ControlLogic_LockedAsManual(s, t) ==
    IF s.mode # AUTO_MODE THEN
        IF t > s.manualStartTime THEN
            [s EXCEPT !.pumpState = TRUE, !.mode = AUTO_MODE,
                      !.manualLock = FALSE]
        ELSE [s EXCEPT !.pumpState = TRUE, !.manualLock = TRUE]
    ELSE IF s.mode = AUTO_MODE /\ ~s.manualLock THEN
        PulseTiming(StartCycle(s, t), t)
    ELSE s

\* (mutant) the timeout releases every lock, the emergency stop included
M_ControlLogic_TimeoutAnyLock(s, t) ==
    LET s1 == IF s.mode = EMERGENCY_STOP THEN
                  [s EXCEPT !.pumpState = FALSE, !.pulseRunning = FALSE,
                            !.manualLock = TRUE]
              ELSE IF s.mode = MANUAL_MODE THEN
                  [s EXCEPT !.pumpState = TRUE, !.manualLock = TRUE]
              ELSE IF s.mode = AUTO_MODE /\ ~s.manualLock THEN
                  PulseTiming(StartCycle(s, t), t)
              ELSE s
    IN  IF s.mode # AUTO_MODE /\ t > s.manualStartTime
        THEN [s1 EXCEPT !.mode = AUTO_MODE, !.manualLock = FALSE]
        ELSE s1

\* (mutant) the manual branch has no timeout
M_ControlLogic_NoTimeout(s, t) ==
    IF s.mode = EMERGENCY_STOP THEN
        [s EXCEPT !.pumpState = FALSE, !.pulseRunning = FALSE,
                  !.manualLock = TRUE]
    ELSE IF s.mode = MANUAL_MODE THEN
        [s EXCEPT !.pumpState = TRUE, !.manualLock = TRUE]
    ELSE IF s.mode = AUTO_MODE /\ ~s.manualLock THEN
        PulseTiming(StartCycle(s, t), t)
    ELSE s

\* (mutant) the expired manual override leaves the arbiter in a fourth,
\* idle mode instead of AUTO
M_ControlLogic_ExpiryToIdle(s, t) ==
    IF s.mode = EMERGENCY_STOP THEN
        [s EXCEPT !.pumpState = FALSE, !.pulseRunning = FALSE,
                  !.manualLock = TRUE]
    ELSE IF s.mode = MANUAL_MODE THEN
        IF t > s.manualStartTime THEN
            [s EXCEPT !.pumpState = TRUE, !.mode = "IDLE_MODE",
                      !.manualLock = FALSE]
        ELSE [s EXCEPT !.pumpState = TRUE, !.manualLock = TRUE]
    ELSE IF s.mode = AUTO_MODE /\ ~s.manualLock THEN
        PulseTiming(StartCycle(s, t), t)
    ELSE s

\* (mutant) the cycle scheduler runs before the mode is looked at
M_ControlLogic_SchedulerAnyMode(s, t) ==
    LET s0 == StartCycle(s, t) IN
    IF s0.mode = EMERGENCY_STOP THEN
        [s0 EXCEPT !.pumpState = FALSE, !.pulseRunning = FALSE,
                   !.manualLock = TRUE]
    ELSE IF s0.mode = MANUAL_MODE THEN
        IF t > s0.manualStartTime THEN
            [s0 EXCEPT !.pumpState = TRUE, !.mode = AUTO_MODE,
                       !.manualLock = FALSE]
        ELSE [s0 EXCEPT !.pumpState = TRUE, !.manualLock = TRUE]
    ELSE IF s0.mode = AUTO_MODE /\ ~s0.manualLock THEN
        PulseTiming(s0, t)
    ELSE s0

\* (mutant) the expired manual override returns to AUTO with the lock set
M_ControlLogic_ExpiryKeepsLock(s, t) ==
    IF s.mode = EMERGENCY_STOP THEN
        [s EXCEPT !.pumpState = FALSE, !.pulseRunning = FALSE,
                  !.manualLock = TRUE]
    ELSE IF s.mode = MANUAL_MODE THEN
        IF t > s.manualStartTime THEN
            [s EXCEPT !.pumpState = TRUE, !.mode = AUTO_MODE,
                      !.manualLock = TRUE]
        ELSE [s EXCEPT !.pumpState = TRUE, !.manualLock = TRUE]
    ELSE IF s.mode = AUTO_MODE /\ ~s.manualLock THEN
        PulseTiming(StartCycle(s, t), t)
    ELSE s

\* lines 238-284
ControlLogic(s, t) ==
    IF s.mode = EMERGENCY_STOP THEN
        [s EXCEPT !.pumpState = FALSE, !.pulseRunning = FALSE,
                  !.manualLock = TRUE]
    ELSE IF s.mode = MANUAL_MODE THEN
        IF t > s.manualStartTime THEN
            [s EXCEPT !.pumpState = TRUE, !.mode = AUTO_MODE,
                      !.manualLock = FALSE]
        ELSE [s EXCEPT !.pumpState = TRUE, !.manualLock = TRUE]
    ELSE IF s.mode = AUTO_MODE /\ ~s.manualLock THEN
        PulseTiming(StartCycle(s, t), t)
    ELSE s

\* ------------------------------------------------------------------------
\* Sensor acquisition and the telemetry record
\* ------------------------------------------------------------------------
\* A float is kept as the text of its value; readTemperature() and
\* readHumidity() return NaN when the read fails.
NaN == "NaN"
IsNan(x) == x = NaN
LOW == "LOW"
HIGH == "HIGH"

\* C integer division: the quotient is truncated toward zero.
TruncDiv(a, b) ==
    LET Abs(x) == IF x < 0 THEN 0 - x ELSE x
        q == Abs(a) \div Abs(b)
    IN  IF (a < 0) = (b < 0) THEN q ELSE 0 - q

\* map(x, in_min, in_max, out_min, out_max) of the Arduino core, in long
\* arithmetic.
Map(x, in_min, in_max, out_min, out_max) ==
    TruncDiv((x - in_min) * (out_max - out_min), in_max - in_min) + out_min

\* constrain(x, lo, hi)
Constrain(x, lo, hi) == IF x < lo THEN lo ELSE IF x > hi THEN hi ELSE x

\* (mutant) the calibration points are passed to map() in the other order
M_SoilPercent_SwappedCalibration(raw) ==
    Constrain(Map(raw, MaxDepth, MinDepth, 0, 100), 0, 100)

\* (mutant) the mapped value is not constrained
M_SoilPercent_NoConstrain(raw) == Map(raw, MinDepth, MaxDepth, 0, 100)

\* soilPercent of a raw analogRead(MOISTURE_PIN) value.  The loop() of
\* Watering_IoT keeps the reading in a float before map() takes it as a
\* long: an integer reading comes back as the same integer.
SoilPercent(raw) == Constrain(Map(raw, MinDepth, MaxDepth, 0, 100), 0, 100)

\* The record loop() of Watering_IoT assembles (lines 295-325) from the
\* sensor levels r with pump command p.
LoopTelemetry(r, p) ==
    [Temperature |-> r.temperature,
     Humidity |-> r.humidity,
     Soil_moisture |-> SoilPercent(r.sensorValue),
     Raining |-> IF r.rainPin = LOW THEN 1 ELSE 0,
     Pump |-> IF p THEN "ON" ELSE "OFF"]

\* The record sendTelemetry() of the Edge firmware assembles (lines 59-85).
SendTelemetry(r, p) ==
    LET failed == IsNan(r.temperature) \/ IsNan(r.humidity) IN
    [Temperature |-> IF failed THEN "0" ELSE r.temperature,
     Humidity |-> IF failed THEN "0" ELSE r.humidity,
     Soil_moisture |-> SoilPercent(r.sensorValue),
     Raining |-> IF r.rainPin = LOW THEN 1 ELSE 0,
     Pump |-> IF p THEN "ON" ELSE "OFF"]

\* Sensor levels presented to a running device.
Readings ==
    [temperature : {NaN, "27"}, humidity : {NaN, "60"},
     sensorValue : {MaxDepth, 3000}, rainPin : {LOW, HIGH}]

\* ------------------------------------------------------------------------
\* applyPump()
\* ------------------------------------------------------------------------
\* (mutant) lastPumpState is not updated after the publish
M_ApplyPump_StaleLast(p, last) ==
    [relay |-> p, ledG |-> p, ledR |-> ~p,
     published |-> (p # last), lastPumpState |-> last]

\* The outputs written and the publish decision, for pump command p and the
\* previously published state last.
ApplyPump(p, last) ==
    [relay |-> p, ledG |-> p, ledR |-> ~p,
     published |-> (p # last), lastPumpState |-> p]

SetOut(o) ==
    /\ relay' = o.relay
    /\ ledG' = o.ledG
    /\ ledR' = o.ledR
    /\ published' = o.published
    /\ lastPumpState' = o.lastPumpState

\* ------------------------------------------------------------------------
\* Initial state: the globals as initialised, after setup() has returned
\* ------------------------------------------------------------------------
\* The globals as initialised (lines 51-83) and the pins low, before
\* setup() has driven them.
PowerOn ==
    /\ clock = TimeStep
    /\ now = 0
    /\ statusPublished = FALSE
    /\ mode = AUTO_MODE
    /\ pumpState = FALSE
    /\ lastPumpState = FALSE
    /\ manualStartTime = 0
    /\ manualLock = FALSE
    /\ fuzzyState = 0
    /\ pulseRunning = FALSE
    /\ pulseEndTime = 0
    /\ cycleStart = 0
    /\ lastMsg = 0
    /\ relay = FALSE
    /\ ledG = FALSE
    /\ published = FALSE
    /\ lastCmd = "none"
    /\ cmdInIter = FALSE
    /\ windowAtCmd = FALSE
    /\ cycleFuzzy = -100
    /\ cmdSinceCycle = FALSE
    /\ prevCmdInIter = "none"
    /\ fuzzyRead = FALSE
    /\ fuzzyUses = 0
    /\ windows = <<>>
    /\ telemetry = {}
    /\ lastReconnect = 0
    /\ subscribed = FALSE
    /\ sent = FALSE
    /\ wifiUp = FALSE
    /\ sessionUp = FALSE
    /\ attempts = 0
    /\ attemptTimes = <<>>
    /\ delivered = {}
    /\ emitTimes = <<>>
    /\ retries = 0

\* After setup(): applyPump() has lit the red indicator (line 194), the
\* session is open or not.
Boot == PowerOn /\ connected \in BOOLEAN /\ ledR = TRUE

Init == Boot /\ pc = "idle" /\ reading = {}

\* ------------------------------------------------------------------------
\* Actions
\* ------------------------------------------------------------------------
\* lines 204-220: d ms have passed since the last look at millis().  conn is
\* what voneClient.connected() returns at line 214: the link held, or it was
\* down and reconnect() succeeded (TRUE); reconnect() failed (FALSE).
IterBegin(d, conn, limit) ==
    /\ pc = "idle"
    /\ clock + d <= limit
    /\ clock' = TimeAdd(clock, d)
    /\ now' = clock'
    /\ connected' = conn
    /\ statusPublished' = connected'
    /\ pc' = "net"
    /\ cmdInIter' = FALSE
    /\ prevCmdInIter' = "none"
    /\ UNCHANGED <<ctlVars, lastMsg, outVars, lastCmd, windowAtCmd,
                   cycleFuzzy, cmdSinceCycle, edgeVars>>

\* The iteration begins within the first MaxClock ms.
LoopBegin(d, conn) == IterBegin(d, conn, MaxClock) /\ UNCHANGED recVars

\* line 222: voneClient.loop() delivers one message to onActuatorReceived
Deliver(deviceId, payload) ==
    /\ pc = "net"
    /\ connected
    /\ SetCtl(OnActuatorReceived(Ctl, deviceId, payload, clock))
    /\ IF CmdKind(deviceId, payload) = "ignored"
       THEN UNCHANGED <<lastCmd, cmdInIter, windowAtCmd, cmdSinceCycle,
                        prevCmdInIter>>
       ELSE /\ lastCmd' = CmdKind(deviceId, payload)
            /\ prevCmdInIter' = IF cmdInIter THEN lastCmd ELSE "none"
            /\ cmdInIter' = TRUE
            /\ windowAtCmd' = (mode = AUTO_MODE /\ pulseRunning
                                 /\ clock < pulseEndTime)
            /\ cmdSinceCycle' = TRUE
    /\ UNCHANGED <<clock, now, pc, connected, statusPublished, lastMsg,
                   outVars, cycleFuzzy, edgeVars>>

\* The message arrives within the command horizon.
IterDispatch(deviceId, payload) ==
    clock <= CmdHorizon /\ Deliver(deviceId, payload)

Dispatch(deviceId, payload) ==
    IterDispatch(deviceId, payload) /\ UNCHANGED recVars

\* lines 227-326: the rest of the iteration
IterRest(line) ==
    /\ pc = "net"
    /\ LET s1 == ReadSerial(Ctl, line)
           s2 == ControlLogic(s1, now)
           boundary == ControlBranch(s1) = "auto" /\ CycleDue(s1, now)
       IN  /\ SetCtl(s2)
           /\ SetOut(ApplyPump(s2.pumpState, lastPumpState))
           /\ cycleFuzzy' = IF boundary THEN s1.fuzzyState ELSE cycleFuzzy
           /\ cmdSinceCycle' = IF boundary THEN FALSE ELSE cmdSinceCycle
    /\ lastMsg' = IF TimeSub(now, lastMsg) > TELEMETRY_CYCLE THEN now ELSE lastMsg
    /\ pc' = "idle"
    /\ UNCHANGED <<clock, now, connected, statusPublished, lastCmd, cmdInIter,
                   windowAtCmd, prevCmdInIter, edgeVars>>

LoopRest(line) == IterRest(line) /\ UNCHANGED recVars

Next ==
    \/ \E d \in Deltas, conn \in BOOLEAN : LoopBegin(d, conn)
    \/ \E deviceId \in DeviceIds, payload \in Payloads :
          Dispatch(deviceId, payload)
    \/ \E line \in SerialLines \cup {NoLine} : LoopRest(line)

Spec == Init /\ [][Next]_vars

\* The Arduino core calls loop() forever and millis() keeps counting: an
\* iteration that has begun is finished (weak fairness), and of the
\* iterations that keep beginning, some begin at a later clock value, as
\* long as the bound MaxClock allows (strong fairness: between iterations the
\* step is enabled, inside one it is not).
\* LoopFinish is stated for the iteration that reads no serial line: it is
\* enabled exactly when any LoopRest step is (pc = "net") and every LoopRest
\* step disables it, so the condition is the same as for all of LoopRest.
LoopAdvance == \E d \in Deltas \ {0}, conn \in BOOLEAN : LoopBegin(d, conn)
LoopFinish == LoopRest(NoLine)
FairSpec == Spec /\ SF_vars(LoopAdvance) /\ WF_vars(LoopFinish)

\* ------------------------------------------------------------------------
\* The same program with the further observations recorded
\* ------------------------------------------------------------------------
\* line 230: the line read is not empty after trim(), a fuzzy state is stored
FuzzyStored(line) == line # NoLine /\ Len(Trim(line)) > 0

\* line 256 is reached and true: the iteration starts a new cycle
AtBoundary(line) ==
    /\ ControlBranch(ReadSerial(Ctl, line)) = "auto"
    /\ CycleDue(ReadSerial(Ctl, line), now)

\* line 292
TelemetryDue == TimeSub(now, lastMsg) > TELEMETRY_CYCLE

RecBegin ==
    /\ fuzzyRead' = FALSE
    /\ reading' = {}
    /\ telemetry' = {}
    /\ UNCHANGED <<fuzzyUses, windows>>

\* lines 259-269: the iteration opens a pulse window
WindowOpened(line) ==
    LET s1 == ReadSerial(Ctl, line) IN
    AtBoundary(line) /\ StartCycle(s1, now).pulseRunning

RecRest(line) ==
    /\ fuzzyRead' = FuzzyStored(line)
    /\ windows' = IF WindowOpened(line)
                  THEN <<[open |-> now, end |-> pulseEndTime']>>
                       \o SubSeq(windows, 1, IF windows = <<>> THEN 0 ELSE 1)
                  ELSE windows
    /\ fuzzyUses' = (IF FuzzyStored(line) THEN 0 ELSE fuzzyUses)
                     + (IF AtBoundary(line) THEN 1 ELSE 0)

\* lines 292-326: sensor levels r are read when the telemetry is due, and
\* the record carries the pump command just applied
RecTelemetry ==
    IF TelemetryDue
    THEN \E r \in Readings :
            /\ reading' = {r}
            /\ telemetry' = {LoopTelemetry(r, pumpState')}
    ELSE reading' = {} /\ telemetry' = {}

ObsLoopBegin(d, conn) == IterBegin(d, conn, MaxClock) /\ RecBegin
ObsLoopRest(line) == IterRest(line) /\ RecRest(line) /\ RecTelemetry

ObsNext ==
    \/ \E d \in Deltas, conn \in BOOLEAN : ObsLoopBegin(d, conn)
    \/ \E deviceId \in DeviceIds, payload \in Payloads :
          Dispatch(deviceId, payload)
    \/ \E line \in SerialLines \cup {NoLine} : ObsLoopRest(line)

ObsSpec == Init /\ [][ObsNext]_vars

\* ------------------------------------------------------------------------
\* The device left alone in AUTO: no actuator message arrives, the serial
\* line carries fuzzy states, the run spans several irrigation cycles
\* ------------------------------------------------------------------------
AutoSerialLines == SerialLines \cup { <<"-", "1">>, <<"3">>, <<"1", "2">> }

AutoLoopBegin(d, conn) == IterBegin(d, conn, AutoMaxClock) /\ RecBegin
AutoLoopRest(line) ==
    IterRest(line) /\ RecRest(line) /\ UNCHANGED <<reading, telemetry>>

AutoNext ==
    \/ \E d \in Deltas, conn \in BOOLEAN : AutoLoopBegin(d, conn)
    \/ \E line \in AutoSerialLines \cup {NoLine} : AutoLoopRest(line)

AutoSpec == Init /\ [][AutoNext]_vars

\* ------------------------------------------------------------------------
\* The telemetry record as a function of the sensor levels: the levels are
\* drawn first, then either firmware assembles its record from them
\* ------------------------------------------------------------------------
AllReadings ==
    [temperature : {NaN, "27"}, humidity : {NaN, "60"},
     sensorValue : 0..MaxRaw, rainPin : {LOW, HIGH}]

SensorInit ==
    /\ Boot
    /\ pc = "telemetry"
    /\ reading \in {{r} : r \in AllReadings}

\* Watering_IoT, lines 295-325
LoopAssemble ==
    /\ pc = "telemetry"
    /\ \E r \in reading : telemetry' = {LoopTelemetry(r, pumpState)}
    /\ pc' = "loop_sent"
    /\ UNCHANGED <<clock, now, connected, statusPublished, ctlVars, lastMsg,
                   outVars, obsVars, fuzzyRead, fuzzyUses, windows, reading,
                   edgeVars>>

\* Edge firmware, sendTelemetry()
EdgeAssemble ==
    /\ pc = "telemetry"
    /\ \E r \in reading : telemetry' = {SendTelemetry(r, pumpState)}
    /\ pc' = "edge_sent"
    /\ UNCHANGED <<clock, now, connected, statusPublished, ctlVars, lastMsg,
                   outVars, obsVars, fuzzyRead, fuzzyUses, windows, reading,
                   edgeVars>>

SensorNext == LoopAssemble \/ EdgeAssemble

SensorSpec == SensorInit /\ [][SensorNext]_vars

\* ------------------------------------------------------------------------
\* The Edge firmware
\* ------------------------------------------------------------------------
\* What client.loop() can hand to callback(): nothing, or one message.
EdgePayloads == { <<"1">>, <<"0">>, <<" ", "1">>, <<"1", "0">>, <<"o", "n">>,
                  <<>> }
EdgeInbox ==
    {{}} \cup {{[topic |-> topic_command, payload |-> m]} : m \in EdgePayloads}
         \cup {{[topic |-> topic_telemetry, payload |-> <<"1">>]}}

\* The pump and its three pins, as one value.
EdgeOut == [pumpState |-> pumpState, relay |-> relay, ledG |-> ledG,
            ledR |-> ledR]

\* applyPump()
EdgeApplyPump(e) ==
    [e EXCEPT !.relay = e.pumpState, !.ledG = e.pumpState,
              !.ledR = ~e.pumpState]

\* callback(), for every message of the inbox
EdgeCallback(e, inbox) ==
    IF \E m \in inbox : m.topic = topic_command
    THEN LET m == CHOOSE m \in inbox : TRUE IN
         EdgeApplyPump([e EXCEPT !.pumpState = (ToInt(m.payload) = 1)])
    ELSE e

\* loop(), lines 233-247
EdgeSerial(e, line) ==
    IF line # NoLine /\ Len(Trim(line)) > 0
    THEN EdgeApplyPump([e EXCEPT !.pumpState = (ToInt(Trim(line)) \in {1, 2})])
    ELSE e

\* (mutant) the session is opened and the topic is not subscribed
M_Reconnect_NoSubscribe(connectOk) ==
    [connected |-> connectOk, subscribed |-> FALSE]

\* reconnect(), called with no session open: client.connect() succeeds or
\* not, and client.subscribe(topic_command) follows a success.
Reconnect(connectOk) ==
    [connected |-> connectOk, subscribed |-> connectOk]

\* The state when setup() reaches line 196: pins configured, relay low,
\* no connection attempted yet.  The variables that only the main firmware
\* has keep the values of its Boot.
EdgeInit ==
    /\ pc = "edge_setup"
    /\ clock = TimeStep
    /\ now = 0
    /\ connected = FALSE
    /\ subscribed = FALSE
    /\ lastReconnect = 0
    /\ lastMsg = 0
    /\ pumpState = FALSE
    /\ relay = FALSE
    /\ ledG = FALSE
    /\ ledR = FALSE
    /\ reading = {}
    /\ telemetry = {}
    /\ sent = FALSE
    /\ wifiUp = FALSE
    /\ sessionUp = FALSE
    /\ attempts = 0
    /\ attemptTimes = <<>>
    /\ delivered = {}
    /\ emitTimes = <<>>
    /\ retries = 0
    /\ statusPublished = FALSE
    /\ mode = AUTO_MODE
    /\ lastPumpState = FALSE
    /\ manualStartTime = 0
    /\ manualLock = FALSE
    /\ fuzzyState = 0
    /\ pulseRunning = FALSE
    /\ pulseEndTime = 0
    /\ cycleStart = 0
    /\ published = FALSE
    /\ lastCmd = "none"
    /\ cmdInIter = FALSE
    /\ windowAtCmd = FALSE
    /\ cycleFuzzy = -100
    /\ cmdSinceCycle = FALSE
    /\ prevCmdInIter = "none"
    /\ fuzzyRead = FALSE
    /\ fuzzyUses = 0
    /\ windows = <<>>

\* setup(), lines 196-211: the connection attempts of the first 5 s end
\* connected (conn) or not; a session just opened may hand over one message
\* in its client.loop(); then the boot telemetry.
EdgeSetup(conn, inbox, r) ==
    /\ pc = "edge_setup"
    /\ pc' = "edge"
    /\ inbox # {} => conn
    /\ connected' = Reconnect(conn).connected
    /\ subscribed' = Reconnect(conn).subscribed
    /\ delivered' = inbox
    /\ LET e == EdgeCallback(EdgeOut, inbox) IN
       /\ pumpState' = e.pumpState
       /\ relay' = e.relay
       /\ ledG' = e.ledG
       /\ ledR' = e.ledR
       /\ reading' = {r}
       /\ telemetry' = {SendTelemetry(r, e.pumpState)}
    /\ sent' = conn
    /\ lastMsg' = clock
    /\ emitTimes' = <<clock>>
    /\ UNCHANGED <<clock, now, lastReconnect, wifiUp, sessionUp, attempts,
                   attemptTimes, statusPublished, mode, lastPumpState,
                   manualStartTime, manualLock, fuzzyState, pulseRunning,
                   pulseEndTime, cycleStart, published, obsVars, fuzzyRead,
                   fuzzyUses, windows, retries>>

\* millis() is followed in steps of TimeStep during the first seconds of each
\* telemetry period, and in whole periods otherwise.
EdgeDeltas == {0, TimeStep, EDGE_TELEMETRY_CYCLE}
EdgeTick(d) ==
    /\ clock + d <= EdgeMaxClock
    /\ d = TimeStep =>
           (clock % EDGE_TELEMETRY_CYCLE) + d <= (MaxSteps + 1) * TimeStep

\* (mutant) the throttle is forgotten: an attempt in every loop() without
\* a session
M_ReconnectDue_Unthrottled(wifi, held, t) == wifi /\ ~held

\* loop(), lines 219-226: reconnect() is called
ReconnectDue(wifi, held, t) ==
    wifi /\ ~held /\ TimeSub(t, lastReconnect) > RECONNECT_INTERVAL

\* loop(), lines 217-230, d ms after the last loop().  wifi: WiFi.status()
\* == WL_CONNECTED at line 219; held: the session that was open is still
\* open at line 220; connectOk: the client.connect() of reconnect() succeeds;
\* inbox: what client.loop() hands to callback(), which needs a session that
\* is open and subscribed.
EdgeMqtt(d, wifi, held, connectOk, inbox) ==
    LET t == TimeAdd(clock, d)
        attempt == ReconnectDue(wifi, held, t)
        e == EdgeCallback(EdgeOut, inbox)
    IN
    /\ pc = "edge"
    /\ EdgeTick(d)
    /\ held => connected
    /\ connectOk => attempt
    /\ inbox # {} => (wifi /\ held /\ subscribed)
    /\ pc' = "edge_io"
    /\ clock' = t
    /\ lastReconnect' = IF attempt THEN t ELSE lastReconnect
    /\ connected' = IF attempt THEN Reconnect(connectOk).connected ELSE held
    /\ subscribed' = IF attempt THEN Reconnect(connectOk).subscribed
                     ELSE (held /\ subscribed)
    /\ pumpState' = e.pumpState
    /\ relay' = e.relay
    /\ ledG' = e.ledG
    /\ ledR' = e.ledR
    /\ reading' = {}
    /\ telemetry' = {}
    /\ sent' = FALSE
    /\ wifiUp' = wifi
    /\ sessionUp' = held
    /\ attempts' = IF attempt THEN 1 ELSE 0
    /\ attemptTimes' = IF attempt
                       THEN <<t>> \o SubSeq(attemptTimes, 1,
                                     IF attemptTimes = <<>> THEN 0 ELSE 1)
                       ELSE attemptTimes
    /\ delivered' = inbox
    /\ UNCHANGED <<now, lastMsg, emitTimes, statusPublished, mode, lastPumpState,
                   manualStartTime, manualLock, fuzzyState, pulseRunning,
                   pulseEndTime, cycleStart, published, obsVars, fuzzyRead,
                   fuzzyUses, windows, retries>>

M_EdgeSend_NeedsSession(p) ==
    IF connected
    THEN \E r \in Readings :
             /\ reading' = {r}
             /\ telemetry' = {SendTelemetry(r, p)}
             /\ sent' = TRUE
    ELSE reading' = {} /\ telemetry' = {} /\ sent' = FALSE

\* sendTelemetry(): the sensors are read and the record assembled; it goes
\* to the broker only over an open session (line 94).
EdgeSend(p) ==
    \E r \in Readings :
        /\ reading' = {r}
        /\ telemetry' = {SendTelemetry(r, p)}
        /\ sent' = connected

\* (mutant) the telemetry is due as soon as a full period has passed
M_EdgeTelemetryDue_Inclusive == TimeSub(clock, lastMsg) >= EDGE_TELEMETRY_CYCLE

\* loop(), lines 250-251
EdgeTelemetryDue == TimeSub(clock, lastMsg) > EDGE_TELEMETRY_CYCLE

\* loop(), lines 232-255: the serial line waiting (or NoLine), then the
\* telemetry cycle.
EdgeRest(line) ==
    LET e == EdgeSerial(EdgeOut, line) IN
    /\ pc = "edge_io"
    /\ pc' = "edge"
    /\ now' = clock
    /\ pumpState' = e.pumpState
    /\ relay' = e.relay
    /\ ledG' = e.ledG
    /\ ledR' = e.ledR
    /\ IF EdgeTelemetryDue
       THEN /\ lastMsg' = clock
            /\ EdgeSend(e.pumpState)
            /\ emitTimes' = <<clock, Head(emitTimes)>>
       ELSE UNCHANGED <<lastMsg, reading, telemetry, sent, emitTimes>>
    /\ UNCHANGED <<clock, connected, lastReconnect, subscribed, wifiUp,
                   sessionUp, attempts, attemptTimes, delivered,
                   statusPublished, mode, lastPumpState, manualStartTime,
                   manualLock, fuzzyState, pulseRunning, pulseEndTime,
                   cycleStart, published, obsVars, fuzzyRead, fuzzyUses,
                   windows, retries>>

EdgeNext ==
    \/ \E conn \in BOOLEAN, inbox \in EdgeInbox, r \in Readings :
           EdgeSetup(conn, inbox, r)
    \/ \E d \in EdgeDeltas, wifi \in BOOLEAN, held \in BOOLEAN,
          connectOk \in BOOLEAN, inbox \in EdgeInbox :
           EdgeMqtt(d, wifi, held, connectOk, inbox)
    \/ \E line \in SerialLines \cup {NoLine} : EdgeRest(line)

EdgeSpec == EdgeInit /\ [][EdgeNext]_vars

\* Either firmware, from its own start
BothSpec == (Init \/ EdgeInit) /\ [][ObsNext \/ EdgeNext]_vars

\* ------------------------------------------------------------------------
\* setup() of either firmware, from power-on to the first loop()
\* ------------------------------------------------------------------------
\* A wait of setup() is one step per poll: the poll finds what it waits for
\* (TRUE) or not (FALSE), and a poll that goes round again without touching
\* any variable of the program leaves the state as it is.

\* Main firmware at the entry of setup_wifi(); Edge firmware at the entry
\* of its setup_wifi().
SetupInit ==
    /\ PowerOn
    /\ connected = FALSE
    /\ ledR = FALSE
    /\ reading = {}
    /\ pc \in {"wifi_wait", "edge_wifi_wait"}

\* Main firmware, setup_wifi(), lines 98-101
SetupWifiPoll(up) ==
    /\ pc = "wifi_wait"
    /\ pc' = IF up THEN "ntp_wait" ELSE pc
    /\ UNCHANGED <<clock, now, connected, statusPublished, ctlVars, lastMsg,
                   outVars, obsVars, recVars, edgeVars>>

\* Main firmware, syncTime(), lines 116-120
SyncTimePoll(synced) ==
    /\ pc = "ntp_wait"
    /\ pc' = IF synced THEN "setup_io" ELSE pc
    /\ UNCHANGED <<clock, now, connected, statusPublished, ctlVars, lastMsg,
                   outVars, obsVars, recVars, edgeVars>>

\* Main firmware, setup(), lines 178-197: the pins are configured and
\* applyPump() drives them; conn: voneClient.setup() has opened the session.
SetupFinish(conn) ==
    /\ pc = "setup_io"
    /\ pc' = "idle"
    /\ connected' = conn
    /\ SetOut(ApplyPump(pumpState, lastPumpState))
    /\ UNCHANGED <<clock, now, statusPublished, ctlVars, lastMsg, obsVars,
                   recVars, edgeVars>>

\* Edge firmware, setup_wifi(), lines 111-116
EdgeWifiPoll(up) ==
    /\ pc = "edge_wifi_wait"
    /\ IF ~up /\ retries < WIFI_RETRIES
       THEN retries' = retries + 1 /\ UNCHANGED pc
       ELSE retries' = 0 /\ pc' = "edge_setup"
    /\ UNCHANGED <<clock, now, connected, statusPublished, ctlVars, lastMsg,
                   outVars, obsVars, recVars, lastReconnect, subscribed, sent,
                   edgeObs>>

SetupNext ==
    \/ \E up \in BOOLEAN : SetupWifiPoll(up)
    \/ \E synced \in BOOLEAN : SyncTimePoll(synced)
    \/ \E conn \in BOOLEAN : SetupFinish(conn)
    \/ \E up \in BOOLEAN : EdgeWifiPoll(up)
    \/ \E conn \in BOOLEAN, inbox \in EdgeInbox, r \in Readings :
           EdgeSetup(conn, inbox, r)

SetupSpec == SetupInit /\ [][SetupNext]_vars

\* The processor keeps executing setup(): each poll and each step is taken
\* again and again, also when the network answers nothing (FALSE).
FairSetupSpec ==
    /\ SetupSpec
    /\ WF_vars(SetupWifiPoll(FALSE))
    /\ WF_vars(SyncTimePoll(FALSE))
    /\ WF_vars(SetupFinish(FALSE))
    /\ WF_vars(EdgeWifiPoll(FALSE))
    /\ WF_vars(\E r \in Readings : EdgeSetup(FALSE, {}, r))

\* ------------------------------------------------------------------------
\* The main firmware around the wrap of millis()
\* ------------------------------------------------------------------------
WrapStart == ULONG_MOD - WrapLead

\* The device has run in AUTO since boot without a command and without
\* opening a window; the last cycle boundary and the last telemetry are
\* less than a period back, and a fuzzy state has been stored.
WrapInit ==
    /\ pc = "idle"
    /\ clock = WrapStart
    /\ now = WrapStart
    /\ connected \in BOOLEAN
    /\ statusPublished = connected
    /\ mode = AUTO_MODE
    /\ pumpState = FALSE
    /\ lastPumpState = FALSE
    /\ manualStartTime = 0
    /\ manualLock = FALSE
    /\ fuzzyState \in 0..2
    /\ pulseRunning = FALSE
    /\ pulseEndTime = 0
    /\ cycleStart \in {WrapStart - TELEMETRY_CYCLE + k * TimeStep : k \in 1..2}
    /\ lastMsg = cycleStart
    /\ relay = FALSE
    /\ ledG = FALSE
    /\ ledR = TRUE
    /\ published = FALSE
    /\ lastCmd = "none"
    /\ cmdInIter = FALSE
    /\ windowAtCmd = FALSE
    /\ cycleFuzzy = 0
    /\ cmdSinceCycle = FALSE
    /\ prevCmdInIter = "none"
    /\ fuzzyRead = FALSE
    /\ fuzzyUses = 1
    /\ windows = <<>>
    /\ reading = {}
    /\ telemetry = {}
    /\ lastReconnect = 0
    /\ subscribed = FALSE
    /\ sent = FALSE
    /\ wifiUp = FALSE
    /\ sessionUp = FALSE
    /\ attempts = 0
    /\ attemptTimes = <<>>
    /\ delivered = {}
    /\ emitTimes = <<>>
    /\ retries = 0

\* The iteration begins no later than WrapEnd ms after the wrap.
WrapLoopBegin(d, conn) ==
    /\ IterBegin(d, conn, IF clock >= WrapStart THEN ULONG_MOD + WrapEnd
                          ELSE WrapEnd)
    /\ RecBegin

WrapDispatch(deviceId, payload) ==
    /\ TimeSub(clock, WrapStart) <= WrapCmdSpan
    /\ Deliver(deviceId, payload)
    /\ UNCHANGED recVars

WrapLoopRest(line) ==
    IterRest(line) /\ RecRest(line) /\ UNCHANGED <<reading, telemetry>>

WrapNext ==
    \/ \E d \in Deltas, conn \in BOOLEAN : WrapLoopBegin(d, conn)
    \/ \E deviceId \in DeviceIds, payload \in Payloads :
          WrapDispatch(deviceId, payload)
    \/ \E line \in SerialLines \cup {NoLine} : WrapLoopRest(line)

WrapSpec == WrapInit /\ [][WrapNext]_vars

\* ------------------------------------------------------------------------
\* Properties
\* ------------------------------------------------------------------------
\* pc = "idle" holds exactly after applyPump() (line 287, or line 194 of
\* setup()) and the telemetry step: the outputs are those just applied.
Applied == pc = "idle"
LoopStep == pc' # pc

\* C1: at every actuator application made while the mode is EMERGENCY_STOP
\* the applied pump command is false and no pulse window is active.
C1_EmergencyStopPumpOff ==
    (Applied /\ mode = EMERGENCY_STOP)
        => (relay = FALSE /\ pumpState = FALSE /\ pulseRunning = FALSE)

\* Reached: the stop arrived during a pulse window whose end time is still
\* ahead, with a pulse-requesting fuzzy state stored.
C1_Witness ==
    /\ Applied /\ mode = EMERGENCY_STOP
    /\ lastCmd = "stop" /\ windowAtCmd
    /\ now < pulseEndTime /\ fuzzyState \in {1, 2}

\* C2: once the mode is EMERGENCY_STOP it stays EMERGENCY_STOP and the pump
\* command stays false, whatever arrives afterwards (a manual-on included).
C2_StopNotOverridden ==
    [][mode = EMERGENCY_STOP
          => (mode' = EMERGENCY_STOP /\ pumpState' = FALSE)]_vars

\* C3: a step of the loop that dispatches no actuator command never leaves
\* EMERGENCY_STOP, whatever the clock and the fuzzy state.
C3_StopNeverTimesOut ==
    [][(mode = EMERGENCY_STOP /\ LoopStep) => mode' = EMERGENCY_STOP]_vars

\* Reached: still stopped in an iteration without a command, after the
\* deadline of an earlier manual window and a whole cycle period have passed,
\* with a pulse-requesting fuzzy state.
C3_Witness ==
    /\ Applied /\ mode = EMERGENCY_STOP /\ ~cmdInIter
    /\ manualStartTime > 0 /\ now > manualStartTime
    /\ CycleDue(Ctl, now) /\ fuzzyState \in {1, 2}

\* C4: with manual-on the last command handled, at t = manualStartTime -
\* MANUAL_TIMEOUT, after every iteration run at now < t + MANUAL_TIMEOUT the
\* mode is MANUAL and after every iteration run at now >= t + MANUAL_TIMEOUT
\* it is AUTO.
C4_ManualWindow ==
    (Applied /\ lastCmd = "on")
        => /\ (now < manualStartTime => mode = MANUAL_MODE)
           /\ (now >= manualStartTime => mode = AUTO_MODE)

\* C5: at every actuator application made in MANUAL the applied pump command
\* is true; and from MANUAL, either the mode becomes AUTO or a further
\* command is dispatched.
C5_ManualPumpOnThenAuto ==
    /\ []((Applied /\ mode = MANUAL_MODE) => (relay = TRUE /\ pumpState = TRUE))
    /\ ((Applied /\ mode = MANUAL_MODE)
           ~> (mode = AUTO_MODE \/ (pc = "net" /\ cmdInIter)))

\* Reached: the return to AUTO of a manual window that no command cut short.
C5_Witness ==
    /\ Applied /\ mode = AUTO_MODE /\ lastCmd = "on" /\ ~cmdInIter
    /\ now > manualStartTime /\ manualLock = FALSE

\* C6: whenever the pump command applied in AUTO is true, a pulse window is
\* active.
C6_AutoPumpOnlyInWindow ==
    (Applied /\ mode = AUTO_MODE /\ relay = TRUE)
        => (pulseRunning /\ now < pulseEndTime)

\* C7: with no command since the cycle boundary at cycleStart, the applied
\* pump command is true exactly while now < cycleStart + FUZZY1_PULSE when
\* the boundary read fuzzy state 1, while now < cycleStart + FUZZY2_PULSE
\* when it read 2; and FUZZY2_PULSE > FUZZY1_PULSE.
C7_PulseDuration ==
    /\ FUZZY2_PULSE > FUZZY1_PULSE
    /\ (Applied /\ mode = AUTO_MODE /\ ~cmdSinceCycle /\ cycleFuzzy = 1)
          => (relay = TRUE <=> now < cycleStart + FUZZY1_PULSE)
    /\ (Applied /\ mode = AUTO_MODE /\ ~cmdSinceCycle /\ cycleFuzzy = 2)
          => (relay = TRUE <=> now < cycleStart + FUZZY2_PULSE)

\* Reached: the iteration that switches a long pulse off, exactly at its end.
C7_Witness ==
    /\ Applied /\ mode = AUTO_MODE /\ ~cmdSinceCycle /\ cycleFuzzy = 2
    /\ now = cycleStart + FUZZY2_PULSE /\ relay = FALSE /\ published

\* C8: after a manual-on that arrived during a pulse window (at t =
\* manualStartTime - MANUAL_TIMEOUT) and with no later command, an iteration
\* that runs the AUTO branch turns the pump on only within a cycle started
\* after t.
C8_ManualDiscardsWindow ==
    [][(pc = "net" /\ pc' = "idle" /\ mode = AUTO_MODE
          /\ lastCmd = "on" /\ windowAtCmd /\ relay' = TRUE)
        => cycleStart' > manualStartTime - MANUAL_TIMEOUT]_vars

\* C9: when the last command dispatched in an iteration is a stop that came
\* during an active pulse window, the actuator application of that same
\* iteration drives the relay off, and the window is cleared.
C9_StopPreemptsPulse ==
    (Applied /\ cmdInIter /\ lastCmd = "stop" /\ windowAtCmd)
        => (relay = FALSE /\ pulseRunning = FALSE /\ mode = EMERGENCY_STOP)

\* Reached: the relay goes from on to off in the iteration of the stop,
\* before the end time of the window.
C9_Witness ==
    /\ Applied /\ cmdInIter /\ lastCmd = "stop" /\ windowAtCmd
    /\ published /\ relay = FALSE /\ now < pulseEndTime

\* C10: the actuator application of an iteration issues a state-change
\* publish exactly when the relay value it writes differs from the one
\* written before, and lastPumpState is the value written.
C10_PublishOnChangeOnly ==
    [][(pc = "net" /\ pc' = "idle")
        => /\ (published' <=> relay' # relay)
           /\ lastPumpState' = relay']_vars

\* Reached: an application that leaves the relay on without a publish.
C10_Witness == Applied /\ relay = TRUE /\ ~published

\* A well-formed command: a message for the pump relay whose payload is a
\* JSON object with a boolean Relay member.
WellFormedCmd(deviceId, payload) ==
    /\ deviceId = RelayWaterPump
    /\ payload \in {"{\"Relay\":true}", "{\"Relay\":false}"}

\* C11: the dispatch of a message that is no well-formed manual-on or stop
\* command (unparsable payload, no Relay member, a Relay value that is no
\* boolean, another device) leaves the mode, the pump command, the manual
\* window and the pulse window unchanged.
C11_MalformedIgnored ==
    [][\A deviceId \in DeviceIds, payload \in Payloads :
          (~WellFormedCmd(deviceId, payload) /\ Dispatch(deviceId, payload))
              => UNCHANGED <<mode, pumpState, manualStartTime, pulseRunning,
                             pulseEndTime>>]_vars

\* C16: the mode is AUTO when loop() is first entered, and it is one of
\* AUTO, MANUAL, EMERGENCY_STOP in every state.
C16_ModeIsOneOfThree ==
    /\ (pc = "idle" /\ now = 0) => mode = AUTO_MODE
    /\ mode \in ControlMode

\* Reached: AUTO again after a manual window, opened later than the first
\* iteration, ran out, with a fuzzy state outside 0..2 stored.
C16_Witness ==
    /\ Applied /\ mode = AUTO_MODE /\ lastCmd = "on"
    /\ now > manualStartTime /\ fuzzyState = 7
    /\ manualStartTime > MANUAL_TIMEOUT + TimeStep

\* C17: when several commands were dispatched in one iteration, the mode and
\* the pump command applied at its end are those of the last one: a stop
\* gives EMERGENCY_STOP with the pump off, a manual-on gives MANUAL with the
\* pump on.
C17_LastCommandWins ==
    (Applied /\ cmdInIter /\ prevCmdInIter # "none")
        => /\ lastCmd = "stop"
                => (mode = EMERGENCY_STOP /\ pumpState = FALSE /\ relay = FALSE)
           /\ lastCmd = "on"
                => (mode = MANUAL_MODE /\ pumpState = TRUE /\ relay = TRUE)

\* Reached: a stop followed by a manual-on in the same iteration, which
\* switches the relay on.
C17_Witness ==
    /\ Applied /\ cmdInIter /\ prevCmdInIter = "stop" /\ lastCmd = "on"
    /\ mode = MANUAL_MODE /\ relay = TRUE /\ published

\* C20: an iteration evaluated in MANUAL or EMERGENCY_STOP opens no pulse
\* window and leaves cycleStart and pulseEndTime unchanged; and whatever
\* fuzzy state it reads, the mode, the manual deadline and the pump command
\* it ends with are those the mode alone determines.
C20_SchedulerOnlyInAuto ==
    [][(pc = "net" /\ pc' = "idle" /\ mode # AUTO_MODE)
        => /\ cycleStart' = cycleStart
           /\ pulseEndTime' = pulseEndTime
           /\ pulseRunning' => pulseRunning
           /\ manualStartTime' = manualStartTime
           /\ mode = EMERGENCY_STOP
                => (mode' = EMERGENCY_STOP /\ pumpState' = FALSE)
           /\ mode = MANUAL_MODE
                => /\ pumpState' = TRUE
                   /\ mode' = IF now > manualStartTime
                              THEN AUTO_MODE ELSE MANUAL_MODE]_vars

\* Reached: an iteration in MANUAL that stored fuzzy state 2 with a cycle
\* due: no cycle was started, no window opened, the pump stays on.
C20_Witness ==
    /\ Applied /\ mode = MANUAL_MODE /\ fuzzyRead /\ fuzzyState = 2
    /\ CycleDue(Ctl, now) /\ cycleStart = 0 /\ ~pulseRunning
    /\ relay = TRUE

\* C18: with no command since a cycle boundary that read a fuzzy state other
\* than 1 and 2 (0, a negative value, 3 or more, text parsed as 0), no pulse
\* window is active and the applied pump command is false.
C18_OtherIntensityNoPulse ==
    (Applied /\ mode = AUTO_MODE /\ ~cmdSinceCycle
        /\ cycleFuzzy # -100 /\ cycleFuzzy \notin {1, 2})
        => (~pulseRunning /\ pumpState = FALSE /\ relay = FALSE)

\* Reached: the end of a cycle whose boundary read a negative fuzzy state,
\* the pump off and the next boundary due.
C18_Witness ==
    /\ Applied /\ mode = AUTO_MODE /\ cycleFuzzy < 0 /\ cycleFuzzy # -100
    /\ now = cycleStart + TELEMETRY_CYCLE - TimeStep /\ relay = FALSE

\* C19: an iteration that starts no cycle leaves the cycle and its window as
\* they are, whatever fuzzy state it reads: the window only runs out at its
\* end time; an iteration that starts a cycle opens the window the stored
\* fuzzy state asks for; and the stored fuzzy state changes only when a
\* line is read.
C19_FuzzyReadAtBoundaryOnly ==
    [][(pc = "net" /\ pc' = "idle" /\ mode = AUTO_MODE /\ ~manualLock)
        => /\ (fuzzyState' # fuzzyState => fuzzyRead')
           /\ ~CycleDue(Ctl, now)
                => /\ cycleStart' = cycleStart
                   /\ pulseEndTime' = pulseEndTime
                   /\ pulseRunning' = (pulseRunning /\ now < pulseEndTime)
                   /\ pumpState' = pulseRunning'
           /\ CycleDue(Ctl, now)
                => /\ cycleStart' = now
                   /\ pulseRunning' = (fuzzyState' \in {1, 2})
                   /\ pumpState' = pulseRunning'
                   /\ fuzzyState' = 1 => pulseEndTime' = now + FUZZY1_PULSE
                   /\ fuzzyState' = 2 => pulseEndTime' = now + FUZZY2_PULSE
                   /\ fuzzyState' \notin {1, 2}
                        => pulseEndTime' = pulseEndTime]_vars

\* Reached: in the second cycle or later, an iteration in the middle of a
\* long pulse stores fuzzy state 0 and the pulse goes on.
C19_Witness ==
    /\ Applied /\ fuzzyRead /\ fuzzyState = 0 /\ cycleFuzzy = 2
    /\ cycleStart >= 2 * TELEMETRY_CYCLE
    /\ now > cycleStart /\ now < pulseEndTime /\ pulseRunning /\ relay = TRUE

\* C12: the soil moisture percent of every telemetry record is an integer
\* from 0 to 100, whatever the raw reading.
C12_SoilPercentInRange ==
    \A m \in telemetry : m.Soil_moisture \in 0..100

\* Reached: a record assembled by loop() from a raw reading above the dry
\* calibration value.
C12_Witness ==
    /\ pc = "loop_sent"
    /\ \E r \in reading : r.sensorValue > MinDepth
    /\ \E m \in telemetry : m.Soil_moisture = 0

\* C13: the dry calibration value gives 0 percent, the wet one 100 percent,
\* every raw value below the wet one 100 percent, every raw value above the
\* dry one 0 percent, and a raw value between them the percent p of the
\* linear map with the fraction dropped:
\* p * (MinDepth - MaxDepth) <= (MinDepth - raw) * 100
\*                            < (p + 1) * (MinDepth - MaxDepth).
C13_SoilPercentLinearMap ==
    \A r \in reading, m \in telemetry :
        LET raw == r.sensorValue
            p == m.Soil_moisture
        IN  /\ raw = MinDepth => p = 0
            /\ raw = MaxDepth => p = 100
            /\ raw < MaxDepth => p = 100
            /\ raw > MinDepth => p = 0
            /\ (MaxDepth <= raw /\ raw <= MinDepth)
                  => /\ p * (MinDepth - MaxDepth) <= (MinDepth - raw) * 100
                     /\ (MinDepth - raw) * 100 < (p + 1) * (MinDepth - MaxDepth)

\* Reached: a record assembled by sendTelemetry() from a raw reading below
\* the wet calibration value.
C13_Witness ==
    /\ pc = "edge_sent"
    /\ \E r \in reading : r.sensorValue < MaxDepth
    /\ \E m \in telemetry : m.Soil_moisture = 100

\* C15: no telemetry record carries NaN, and a temperature or humidity read
\* that failed is reported as 0.
C15_NanReportedAsZero ==
    \A r \in reading, m \in telemetry :
        /\ ~IsNan(m.Temperature) /\ ~IsNan(m.Humidity)
        /\ IsNan(r.temperature) => m.Temperature = "0"
        /\ IsNan(r.humidity) => m.Humidity = "0"

\* C14: an iteration that runs while the broker connection is down does what
\* a connected one does with the serial line, the control logic, the pump
\* pins and the sensors of a due telemetry; only the publication is left out.
\* Main firmware: the step that ends an iteration computes the control state
\* from the serial line and the clock alone, drives the pins from it, and
\* reads the sensors when the telemetry is due.  Edge firmware: the same for
\* its serial command, and the record assembled is not sent.
C14_WorksWhileBrokerDown ==
    [][ /\ (pc = "net" /\ pc' = "idle" /\ ~connected) =>
              /\ \E line \in SerialLines \cup {NoLine} :
                     Ctl' = ControlLogic(ReadSerial(Ctl, line), now)
              /\ relay' = pumpState' /\ ledG' = pumpState'
              /\ ledR' = ~pumpState'
              /\ TelemetryDue =>
                     (reading' # {} /\ telemetry' # {} /\ lastMsg' = now)
        /\ (pc = "edge_io" /\ pc' = "edge" /\ ~connected) =>
              /\ \E line \in SerialLines \cup {NoLine} :
                     EdgeOut' = EdgeSerial(EdgeOut, line)
              /\ EdgeTelemetryDue =>
                     /\ reading' # {} /\ telemetry' # {}
                     /\ lastMsg' = clock /\ ~sent'
      ]_vars

\* Reached: the Edge firmware, with no session, has switched the pump on and
\* assembled the telemetry of a later period without sending it.
C14_Witness ==
    /\ pc = "edge"
    /\ ~connected
    /\ clock > EDGE_TELEMETRY_CYCLE
    /\ lastMsg = clock
    /\ relay /\ ledG /\ ~ledR
    /\ ~sent
    /\ \E m \in telemetry : m.Pump = "ON"

\* C21: one pulse window at a time, never reopened early: of any two
\* consecutive window openings the later is at least TELEMETRY_CYCLE after
\* the earlier, and the earlier window's end time has passed by then.
C21_WindowsOneCycleApart ==
    Len(windows) = 2 =>
        /\ TimeSub(windows[1].open, windows[2].open) >= TELEMETRY_CYCLE
        /\ windows[2].end <= windows[1].open
        /\ windows[2].end > windows[2].open

\* Reached: a second window has just been opened, at a later boundary than
\* the first, and the pump runs in it.
C21_Witness ==
    /\ pc = "idle"
    /\ Len(windows) = 2
    /\ windows[1].open = now
    /\ pulseRunning /\ pulseEndTime = windows[1].end
    /\ relay

C23_SubscribedBeforeDispatch ==
    pc \in {"edge", "edge_io"} =>
        /\ connected => subscribed
        /\ delivered # {} => (connected /\ subscribed)
        /\ (attempts = 1 /\ ~connected) => ~subscribed

\* Reached: the session was lost, a later loop() opened a new one, and a
\* command delivered in it has switched the pump on.
C23_Witness ==
    /\ pc = "edge_io"
    /\ attemptTimes # <<>>
    /\ attempts = 0
    /\ connected /\ subscribed
    /\ \E m \in delivered : m.topic = topic_command
    /\ relay

\* C24: the serial channel and the MQTT channel take the same commands:
\* what a serial line did to the pump and its pins in a loop() of the Edge
\* firmware is what the same text, delivered on the command topic, would
\* have done from the same state, and the other way round.
C24_ChannelsAgree ==
    [][ /\ (pc = "edge_io" /\ pc' = "edge") =>
               \A line \in SerialLines :
                   EdgeOut' = EdgeSerial(EdgeOut, line) =>
                       EdgeOut' = EdgeCallback(EdgeOut,
                                     {[topic |-> topic_command,
                                       payload |-> line]})
        /\ (pc = "edge" /\ pc' = "edge_io") =>
               \A m \in delivered' :
                   m.topic = topic_command =>
                       EdgeOut' = EdgeSerial(EdgeOut, m.payload)
      ]_vars

\* The text of the pump state in a telemetry record
PumpText(p) == IF p THEN "ON" ELSE "OFF"

C26_SetupTerminates == <>(pc \in {"idle", "edge"})

\* C27: when setup() has ended, when a loop iteration has ended and when the
\* Edge firmware has handled a command, the relay and the green indicator
\* show the pump state and the red indicator its negation.
C27_OutputsMirrorPump ==
    (\/ pc \in {"idle", "edge"}
     \/ pc = "edge_io" /\ \E m \in delivered : m.topic = topic_command) =>
        /\ relay = pumpState
        /\ ledG = pumpState
        /\ ledR = ~pumpState

\* C28: between iterations, at the start of the control logic and after
\* every command, manualLock is set exactly in MANUAL and EMERGENCY_STOP, so
\* in AUTO the scheduling branch of the control logic is the one that runs.
C28_LockAgreesWithMode ==
    pc \in {"idle", "net"} =>
        /\ manualLock = (mode \in {MANUAL_MODE, EMERGENCY_STOP})
        /\ mode = AUTO_MODE => ControlBranch(Ctl) = "auto"

\* Reached: a manual override has run out, the device is in AUTO with the
\* lock released, and the scheduler has opened a pulse window since.
C28_Witness ==
    /\ pc = "idle"
    /\ lastCmd = "on"
    /\ mode = AUTO_MODE /\ ~manualLock
    /\ pulseRunning /\ cycleStart > 0
    /\ relay

\* C29: the manual override and the pulse window last their full duration
\* also across the wrap of the millisecond counter.  After an iteration run
\* less than MANUAL_TIMEOUT after the last manual-on the device is in MANUAL
\* with the pump on, after one run more than MANUAL_TIMEOUT after it the
\* device is in AUTO; and in AUTO with no command since the cycle boundary
\* that opened a window, the pump is on after every iteration run before the
\* window's duration is over and off after every later one.
C29_ExpiryAcrossWrap ==
    /\ (Applied /\ lastCmd = "on") =>
           LET t0 == TimeSub(manualStartTime, MANUAL_TIMEOUT)
               elapsed == TimeSub(now, t0)
           IN  /\ elapsed < MANUAL_TIMEOUT => (mode = MANUAL_MODE /\ relay)
               /\ elapsed > MANUAL_TIMEOUT => mode = AUTO_MODE
    /\ (/\ Applied /\ mode = AUTO_MODE /\ ~cmdSinceCycle
        /\ windows # <<>> /\ Head(windows).open = cycleStart) =>
           LET w == Head(windows)
               elapsed == TimeSub(now, w.open)
               duration == TimeSub(w.end, w.open)
           IN  /\ elapsed < duration => (pulseRunning /\ relay)
               /\ elapsed >= duration => (~pulseRunning /\ ~relay)

====================================================================
